---- MODULE Spec2Model ----
(***************************************************************************)
(* Hacksters Portfolio API (main.py, schemas.py): a FastAPI service over a *)
(* document store with five collections.  The state is the store's        *)
(* contents, the connection handle `db`, and the last HTTP response.       *)
(* Every route handler is one action.  POST /seed is modelled a second     *)
(* time as a sequence of store round trips (SpecSeedRace), to study        *)
(* overlapping seed requests.                                              *)
(*                                                                         *)
(* Python values: a dict is a function on its keys, a list is a sequence,  *)
(* None is the record None, a str is a TLA+ string, except the strings     *)
(* that are compared or cut (dates, identifiers, error messages), which    *)
(* are sequences of character codes.  An Optional[str] field holds None or *)
(* Some(s).  A URL is the triple <<scheme, host, path>> of its text.       *)
(***************************************************************************)
EXTENDS Naturals, Sequences, FiniteSets

VARIABLES
    db,         \* database.db: None, or the database handle
    store,      \* collection name -> sequence of documents, store-native order
    nextId,     \* collection name -> counter of the next ObjectId the store hands out
    response,   \* the last HTTP response: [op, status, body]
    pc,         \* SpecSeedRace: each POST /seed request's position in seed_minimal
    created,    \* SpecSeedRace: each request's local list `created`
    overlapped, \* history: some POST /seed began while another was in flight
    acked       \* history: the (body, returned id) of every POST /timeline answered 200

vars == <<db, store, nextId, response, pc, created, overlapped, acked>>

\* ------------------------------------------------------------------ bounds
MaxEvents == 2
MaxMembers == 1
MaxContacts == 1
MaxSeedRequests == 3

\* ------------------------------------------------------------- Python values
None == [NoneType |-> TRUE]
Some(s) == [str |-> s]
EmptyDict == [k \in {} |-> None]
Database == [client |-> "MongoClient"]

\* bool(v) for the values the handlers test: None and {} are falsy.
Truthy(v) == v # None /\ v # EmptyDict

\* Mutant: the slice left out.
TakeAll(s, n) == s

\* s[:n]
Take(s, n) == SubSeq(s, 1, IF Len(s) < n THEN Len(s) ELSE n)

\* str(n) of a non-negative integer: its decimal digits, most significant first.
RECURSIVE Digits(_)
Digits(n) == IF n < 10 THEN <<n>> ELSE Digits(n \div 10) \o <<n % 10>>

\* An ObjectId is unique in the store: the collection it was issued for and a
\* counter.  str(ObjectId) is a digit string, one prefix digit per collection.
ObjectId(c, n) == [collection |-> c, counter |-> n]
CollectionDigit ==
    [organization |-> 1, stats |-> 2, event |-> 3, teammember |-> 4, contactsubmission |-> 5]
StrOid(o) == <<CollectionDigit[o.collection]>> \o Digits(o.counter)

\* Python's str < str: lexicographic by code point, a proper prefix is smaller.
RECURSIVE StrLess(_, _)
StrLess(a, b) ==
    IF Len(b) = 0 THEN FALSE
    ELSE IF Len(a) = 0 THEN TRUE
    ELSE IF Head(a) # Head(b) THEN Head(a) < Head(b)
    ELSE StrLess(Tail(a), Tail(b))

Collections == {"organization", "stats", "event", "teammember", "contactsubmission"}

\* ------------------------------------------------------------------ schemas
EventType == {"win", "participated"}

EventRequired == {"title", "date", "venue", "type"}
EventDefaults == [position |-> None, description |-> None, photos |-> <<>>]
EventFields == EventRequired \cup DOMAIN EventDefaults

\* HttpUrl accepts http and https URLs with a host.
UrlOK(u) == u[1] \in {"http", "https"} /\ u[2] # ""

\* The value an HttpUrl field holds, as text: an empty path becomes "/".
HttpUrl(u) == IF u[3] = "" THEN <<u[1], u[2], "/">> ELSE u

PhotoErrors(p) ==
    IF "photos" \in DOMAIN p /\ \E i \in DOMAIN p["photos"] : ~UrlOK(p["photos"][i])
    THEN {"photos"} ELSE {}

\* Mutant: `type: str` in place of the Literal.
EventErrors_any_type(p) == (EventRequired \ DOMAIN p) \cup PhotoErrors(p)

\* The fields pydantic rejects in a POST /timeline body.
EventErrors(p) ==
    (EventRequired \ DOMAIN p)
      \cup (IF "type" \in DOMAIN p /\ p["type"] \notin EventType THEN {"type"} ELSE {})
      \cup PhotoErrors(p)

\* The Event instance built from a valid body: keys the model does not declare
\* are ignored (pydantic's default), defaults are filled, URLs are parsed.
EventModel(p) ==
    [k \in EventFields |->
        IF k \notin DOMAIN p THEN EventDefaults[k]
        ELSE IF k = "photos" THEN [i \in DOMAIN p[k] |-> HttpUrl(p[k][i])]
        ELSE p[k]]

\* EmailStr: one "@" with a non-empty local part and a non-empty domain.
EmailOK(e) ==
    /\ Cardinality({i \in DOMAIN e : e[i] = "@"}) = 1
    /\ e[1] # "@"
    /\ e[Len(e)] # "@"

MemberRequired == {"name", "role"}
MemberDefaults ==
    [nickname |-> None, bio |-> None, skills |-> <<>>, email |-> None, phone |-> None,
     photo_url |-> None, instagram |-> None, linkedin |-> None, github |-> None]
MemberFields == MemberRequired \cup DOMAIN MemberDefaults

MemberErrors(p) ==
    (MemberRequired \ DOMAIN p)
      \cup (IF "email" \in DOMAIN p /\ ~EmailOK(p["email"]) THEN {"email"} ELSE {})

MemberModel(p) ==
    [k \in MemberFields |-> IF k \in DOMAIN p THEN p[k] ELSE MemberDefaults[k]]

ContactRequired == {"name", "email", "subject", "message"}
ContactDefaults == [company |-> None]
ContactFields == ContactRequired \cup DOMAIN ContactDefaults

ContactErrors(p) ==
    (ContactRequired \ DOMAIN p)
      \cup (IF "email" \in DOMAIN p /\ ~EmailOK(p["email"]) THEN {"email"} ELSE {})

ContactModel(p) ==
    [k \in ContactFields |-> IF k \in DOMAIN p THEN p[k] ELSE ContactDefaults[k]]

OrganizationFields == {"name", "founded_year", "mission", "description", "logo_url", "socials"}
StatsFields == {"patents", "team_size", "achievements"}

\* ------------------------------------------------------- request bodies tried
EventPayloads ==
    { [title |-> "Hack A", date |-> <<9>>, venue |-> "Pune", type |-> "win",
       position |-> Some("1st"), photos |-> <<<<"https", "hacksters.dev", "">>>>],
      [title |-> "Hack B", date |-> <<1, 0>>, venue |-> "Pune", type |-> "participated",
       photos |-> <<<<"https", "hacksters.dev", "/b.png">>>>],
      [title |-> "Hack C", date |-> <<1, 0>>, venue |-> "Goa", type |-> "win",
       sponsor |-> "ACME"],
      [title |-> "Hack D", date |-> <<1>>, venue |-> "Goa", type |-> "lose"],
      [title |-> "Hack E", venue |-> "Goa", type |-> "nominated"],
      [title |-> "Hack F", venue |-> "Goa", type |-> "win"] }

MemberPayloads ==
    { [name |-> "Asha", role |-> "Lead", email |-> <<"a", "@", "b">>],
      [name |-> "Ravi", role |-> "Dev", email |-> <<"a", "b">>],
      [name |-> "Zed"] }

ContactPayloads ==
    { [name |-> "Asha", email |-> <<"a", "@", "b">>, subject |-> "Hi", message |-> "Hello"],
      [name |-> "Ravi", email |-> <<"@", "b">>, subject |-> "Hi", message |-> "Hello"] }

\* ---------------------------------------------------------- storage adapter
\* Mutant: the count is taken with a filter no document matches.
count_documents_no_match(st, c) == Len(SelectSeq(st[c], LAMBDA d : "seeded" \in DOMAIN d))

\* db.<collection>.count_documents({})
count_documents(st, c) == Len(st[c])

\* db.<collection>.find_one({}): the first document in store-native order, or None
find_one(st, c) == IF Len(st[c]) = 0 THEN None ELSE st[c][1]

\* get_documents(collection_name): every document, store-native order
get_documents(st, c) == st[c]

\* The document as the store keeps it: the data plus the assigned _id.
Stored(c, data, n) ==
    [k \in DOMAIN data \cup {"_id"} |-> IF k = "_id" THEN ObjectId(c, n[c]) ELSE data[k]]

insert_one(st, c, data, n) == [st EXCEPT ![c] = Append(@, Stored(c, data, n))]

\* create_document's return value
inserted_id(c, n) == StrOid(ObjectId(c, n[c]))

\* The counters after an insert into c
issued(c, n) == [n EXCEPT ![c] = @ + 1]

\* ------------------------------------------------------------------ utility
\* Mutant: d["_id"] read, not popped.
to_serializable_keeps_id(doc) ==
    IF ~Truthy(doc) THEN doc
    ELSE IF "_id" \in DOMAIN doc
         THEN [k \in DOMAIN doc \cup {"id"} |-> IF k = "id" THEN StrOid(doc["_id"]) ELSE doc[k]]
         ELSE doc

to_serializable(doc) ==
    IF ~Truthy(doc) THEN doc
    ELSE IF "_id" \in DOMAIN doc
         THEN [k \in (DOMAIN doc \ {"_id"}) \cup {"id"} |->
                  IF k = "id" THEN StrOid(doc["_id"]) ELSE doc[k]]
         ELSE doc

Serialized(docs) == [i \in DOMAIN docs |-> to_serializable(docs[i])]

\* key=lambda x: x.get("date", "")
DateKey(x) == IF "date" \in DOMAIN x THEN x["date"] ELSE <<>>

\* Mutant: reverse=True left out, an ascending sort.
InsertAsc(sorted, d) ==
    LET before == {i \in DOMAIN sorted : \A j \in 1..i : ~StrLess(DateKey(d), DateKey(sorted[j]))}
        n == Cardinality(before)
    IN SubSeq(sorted, 1, n) \o <<d>> \o SubSeq(sorted, n + 1, Len(sorted))

\* One step of sorted(..., reverse=True): d goes after every element whose key
\* is not smaller than its own, so equal keys keep their order (the sort is stable).
InsertDesc(sorted, d) ==
    LET before == {i \in DOMAIN sorted : \A j \in 1..i : ~StrLess(DateKey(sorted[j]), DateKey(d))}
        n == Cardinality(before)
    IN SubSeq(sorted, 1, n) \o <<d>> \o SubSeq(sorted, n + 1, Len(sorted))

RECURSIVE SortedByDateDesc(_)
SortedByDateDesc(docs) ==
    IF Len(docs) = 0 THEN <<>>
    ELSE InsertDesc(SortedByDateDesc(SubSeq(docs, 1, Len(docs) - 1)), docs[Len(docs)])

\* ------------------------------------------------------------ HTTP responses
Http(op, status, body) == [op |-> op, status |-> status, body |-> body]

ReadOps ==
    {"read_root", "test_database", "get_schema", "get_organization", "get_stats",
     "list_events", "list_team"}

SeedRequests == 1..MaxSeedRequests
seedVars == <<pc, created, overlapped>>

\* ------------------------------------------------------------ initial states
\* Documents the store may hold before the service starts.
LegacyOrganization ==
    [_id |-> ObjectId("organization", 8), name |-> "OLD", founded_year |-> 2001, mission |-> "Legacy",
     socials |-> EmptyDict]
LegacyStats ==
    [_id |-> ObjectId("stats", 8), patents |-> 3, team_size |-> 4, achievements |-> 5]

NoResponse == Http("none", 0, None)

InitRequests ==
    /\ pc = [r \in SeedRequests |-> "idle"]
    /\ created = [r \in SeedRequests |-> <<>>]
    /\ overlapped = FALSE

Init ==
    /\ db \in {None, Database}
    /\ \E org \in {<<>>, <<LegacyOrganization>>}, st \in {<<>>, <<LegacyStats>>} :
          store = [c \in Collections |->
                     IF c = "organization" THEN org ELSE IF c = "stats" THEN st ELSE <<>>]
    /\ nextId = [c \in Collections |-> 9]
    /\ response = NoResponse
    /\ acked = {}
    /\ InitRequests

\* ------------------------------------------------------------ health & schema
read_root ==
    /\ response' = Http("read_root", 200, [message |-> "Hacksters Portfolio Backend Running"])
    /\ UNCHANGED <<db, store, nextId, acked, seedVars>>

\* Collections of the database that are not this service's.
OtherCollections == <<"o1", "o2", "o3", "o4", "o5", "o6", "o7", "o8", "o9">>
OtherCounts == {0, Len(OtherCollections)}
ErrorLengths == {5, 81}
MaxListed == 10
MaxErrorText == 80

\* A collection exists in the store once it holds a document.
OwnCollections ==
    LET Pick(c) == IF Len(store[c]) > 0 THEN <<c>> ELSE <<>>
    IN Pick("organization") \o Pick("stats") \o Pick("event") \o Pick("teammember")
         \o Pick("contactsubmission")

EnvFlag(set) == IF set THEN "Set" ELSE "Not Set"

\* The response dict of /test; `database` is (status text, error text).
TestResponse(database, detail, url, name, status, collections) ==
    [backend |-> "Running", database |-> database, database_detail |-> detail,
     database_url |-> url, database_name |-> name,
     connection_status |-> status, collections |-> collections]

test_database ==
    /\ \/ /\ db = None
          /\ response' = Http("test_database", 200,
                TestResponse("Available but not initialized", <<>>, None, None,
                             "Not Connected", <<>>))
       \/ /\ db # None
          /\ \E url \in BOOLEAN, name \in BOOLEAN, n \in OtherCounts :
                LET collections == Take(OtherCollections, n) \o OwnCollections
                IN response' = Http("test_database", 200,
                     TestResponse("Connected & Working", <<>>, Some(EnvFlag(url)),
                                  Some(EnvFlag(name)), "Connected",
                                  Take(collections, MaxListed)))
       \/ /\ db # None
          /\ \E url \in BOOLEAN, name \in BOOLEAN, len \in ErrorLengths :
                LET e == [i \in 1..len |-> "e"]
                IN response' = Http("test_database", 200,
                     TestResponse("Connected but Error", Take(e, MaxErrorText),
                                  Some(EnvFlag(url)), Some(EnvFlag(name)),
                                  "Not Connected", <<>>))
    /\ UNCHANGED <<db, store, nextId, acked, seedVars>>

get_schema ==
    /\ response' = Http("get_schema", 200,
          [organization |-> OrganizationFields, stats |-> StatsFields,
           event |-> EventFields, teammember |-> MemberFields,
           contactsubmission |-> ContactFields])
    /\ UNCHANGED <<db, store, nextId, acked, seedVars>>

\* ---------------------------------------------------------------------- seed
DefaultOrganization ==
    [name |-> "HACKSTERS", founded_year |-> 2019, mission |-> "Where ideas become reality.",
     socials |-> [github |-> "https://github.com/", linkedin |-> "https://linkedin.com/"]]
DefaultStats == [patents |-> 0, team_size |-> 8, achievements |-> 12]

\* Mutant: the stats check nested under the organization check.
SeedResult_nested(st, n) ==
    LET seedOrg == count_documents(st, "organization") = 0
        st1 == IF seedOrg THEN insert_one(st, "organization", DefaultOrganization, n) ELSE st
        n1 == IF seedOrg THEN issued("organization", n) ELSE n
        created1 == IF seedOrg THEN <<inserted_id("organization", n)>> ELSE <<>>
        seedStats == seedOrg /\ count_documents(st1, "stats") = 0
        st2 == IF seedStats THEN insert_one(st1, "stats", DefaultStats, n1) ELSE st1
        n2 == IF seedStats THEN issued("stats", n1) ELSE n1
        created2 == IF seedStats THEN Append(created1, inserted_id("stats", n1)) ELSE created1
    IN [store |-> st2, nextId |-> n2, created |-> created2]

\* The body of seed_minimal once db is known to be set: the store, the next
\* ObjectId and the list `created` after the two conditional inserts.
SeedResult(st, n) ==
    LET seedOrg == count_documents(st, "organization") = 0
        st1 == IF seedOrg THEN insert_one(st, "organization", DefaultOrganization, n) ELSE st
        n1 == IF seedOrg THEN issued("organization", n) ELSE n
        created1 == IF seedOrg THEN <<inserted_id("organization", n)>> ELSE <<>>
        seedStats == count_documents(st1, "stats") = 0
        st2 == IF seedStats THEN insert_one(st1, "stats", DefaultStats, n1) ELSE st1
        n2 == IF seedStats THEN issued("stats", n1) ELSE n1
        created2 == IF seedStats THEN Append(created1, inserted_id("stats", n1)) ELSE created1
    IN [store |-> st2, nextId |-> n2, created |-> created2]

seed_minimal ==
    /\ IF db = None
       THEN /\ response' = Http("seed_minimal", 500, [detail |-> "Database not configured"])
            /\ UNCHANGED <<store, nextId>>
       ELSE LET result == SeedResult(store, nextId)
            IN /\ store' = result.store
               /\ nextId' = result.nextId
               /\ response' = Http("seed_minimal", 200, [inserted |-> result.created])
    /\ UNCHANGED <<db, acked, seedVars>>

\* --------------------------------------------------------- public GET routes
\* Mutant: the `if db` guard left out.
GetOne_unguarded(c) ==
    LET doc == find_one(store, c)
    IN IF Truthy(doc) THEN to_serializable(doc) ELSE None

\* doc = db.<c>.find_one({}) if db else None; to_serializable(doc) if doc else None
GetOne(c) ==
    LET doc == IF Truthy(db) THEN find_one(store, c) ELSE None
    IN IF Truthy(doc) THEN to_serializable(doc) ELSE None

get_organization ==
    /\ response' = Http("get_organization", 200, GetOne("organization"))
    /\ UNCHANGED <<db, store, nextId, acked, seedVars>>

get_stats ==
    /\ response' = Http("get_stats", 200, GetOne("stats"))
    /\ UNCHANGED <<db, store, nextId, acked, seedVars>>

\* Mutant: the events keyed by date before sorting, one document per date.
ListEvents_one_per_date ==
    LET docs == IF Truthy(db) THEN get_documents(store, "event") ELSE <<>>
        last == SelectSeq([i \in DOMAIN docs |-> [at |-> i, doc |-> docs[i]]],
                          LAMBDA e : \A j \in (e.at + 1)..Len(docs) :
                                        DateKey(docs[j]) # DateKey(e.doc))
    IN Serialized(SortedByDateDesc([i \in DOMAIN last |-> last[i].doc]))

ListEvents ==
    LET docs == IF Truthy(db) THEN get_documents(store, "event") ELSE <<>>
        docs_sorted == SortedByDateDesc(docs)
    IN Serialized(docs_sorted)

\* Mutant: the sorted documents written back to the collection.
list_events_writes_back ==
    /\ response' = Http("list_events", 200, ListEvents)
    /\ store' = [store EXCEPT !["event"] = SortedByDateDesc(@)]
    /\ UNCHANGED <<db, nextId, acked, seedVars>>

list_events ==
    /\ response' = Http("list_events", 200, ListEvents)
    /\ UNCHANGED <<db, store, nextId, acked, seedVars>>

ListTeam ==
    LET docs == IF Truthy(db) THEN get_documents(store, "teammember") ELSE <<>>
    IN Serialized(docs)

list_team ==
    /\ response' = Http("list_team", 200, ListTeam)
    /\ UNCHANGED <<db, store, nextId, acked, seedVars>>

\* ------------------------------------------------------- admin create routes
\* A validated create: FastAPI answers 422 before the handler runs; the handler
\* calls create_document, which raises (500) without a connection.
Create(op, c, errors, data, limit, extra) ==
    /\ IF errors # {}
       THEN /\ response' = Http(op, 422, [detail |-> errors])
            /\ UNCHANGED <<store, nextId>>
       ELSE IF db = None
       THEN /\ response' = Http(op, 500, [detail |-> "Internal Server Error"])
            /\ UNCHANGED <<store, nextId>>
       ELSE /\ Len(store[c]) < limit
            /\ store' = insert_one(store, c, data, nextId)
            /\ nextId' = issued(c, nextId)
            /\ response' = Http(op, 200, [k \in {"id"} \cup DOMAIN extra |->
                                            IF k = "id" THEN inserted_id(c, nextId) ELSE extra[k]])
    /\ UNCHANGED <<db, seedVars>>

CreateEvent(event) ==
    /\ Create("create_event", "event", EventErrors(event), EventModel(event), MaxEvents,
              EmptyDict)
    /\ acked' = IF response'.status = 200
                THEN acked \cup {[body |-> event, id |-> response'.body["id"]]}
                ELSE acked

create_event == \E event \in EventPayloads : CreateEvent(event)

create_member ==
    \E member \in MemberPayloads :
        /\ Create("create_member", "teammember", MemberErrors(member), MemberModel(member),
               MaxMembers, EmptyDict)
        /\ UNCHANGED acked

submit_contact ==
    \E data \in ContactPayloads :
        /\ Create("submit_contact", "contactsubmission", ContactErrors(data), ContactModel(data),
               MaxContacts, [status |-> "received"])
        /\ UNCHANGED acked

Next ==
    \/ read_root
    \/ test_database
    \/ get_schema
    \/ seed_minimal
    \/ get_organization
    \/ get_stats
    \/ list_events
    \/ list_team
    \/ create_event
    \/ create_member
    \/ submit_contact

Spec == Init /\ [][Next]_vars

\* ------------------------------------------- POST /seed, one store call a step
\* seed_minimal as the requests of several clients run it: the db check, each
\* count_documents call, each create_document call and the return are separate
\* steps, and the steps of different requests interleave.
InFlight(r) == pc[r] \notin {"idle", "done"}

SeedBegin(r) ==
    /\ pc[r] = "idle"
    /\ IF db = None
       THEN /\ response' = Http("seed_minimal", 500, [detail |-> "Database not configured"])
            /\ pc' = [pc EXCEPT ![r] = "done"]
            /\ UNCHANGED overlapped
       ELSE /\ pc' = [pc EXCEPT ![r] = "count_organization"]
            /\ overlapped' = (overlapped \/ \E q \in SeedRequests \ {r} : InFlight(q))
            /\ UNCHANGED response
    /\ UNCHANGED <<db, store, nextId, created, acked>>

SeedCountOrganization(r) ==
    /\ pc[r] = "count_organization"
    /\ pc' = [pc EXCEPT ![r] = IF count_documents(store, "organization") = 0
                                THEN "create_organization" ELSE "count_stats"]
    /\ UNCHANGED <<db, store, nextId, response, created, overlapped, acked>>

SeedCreateOrganization(r) ==
    /\ pc[r] = "create_organization"
    /\ store' = insert_one(store, "organization", DefaultOrganization, nextId)
    /\ nextId' = issued("organization", nextId)
    /\ created' = [created EXCEPT ![r] = Append(@, inserted_id("organization", nextId))]
    /\ pc' = [pc EXCEPT ![r] = "count_stats"]
    /\ UNCHANGED <<db, response, overlapped, acked>>

SeedCountStats(r) ==
    /\ pc[r] = "count_stats"
    /\ pc' = [pc EXCEPT ![r] = IF count_documents(store, "stats") = 0
                                THEN "create_stats" ELSE "return"]
    /\ UNCHANGED <<db, store, nextId, response, created, overlapped, acked>>

SeedCreateStats(r) ==
    /\ pc[r] = "create_stats"
    /\ store' = insert_one(store, "stats", DefaultStats, nextId)
    /\ nextId' = issued("stats", nextId)
    /\ created' = [created EXCEPT ![r] = Append(@, inserted_id("stats", nextId))]
    /\ pc' = [pc EXCEPT ![r] = "return"]
    /\ UNCHANGED <<db, response, overlapped, acked>>

SeedReturn(r) ==
    /\ pc[r] = "return"
    /\ response' = Http("seed_minimal", 200, [inserted |-> created[r]])
    /\ pc' = [pc EXCEPT ![r] = "done"]
    /\ UNCHANGED <<db, store, nextId, created, overlapped, acked>>

InitSeedRace ==
    /\ db \in {None, Database}
    /\ store = [c \in Collections |-> <<>>]
    /\ nextId = [c \in Collections |-> 9]
    /\ response = NoResponse
    /\ acked = {}
    /\ InitRequests

NextSeedRace ==
    \E r \in SeedRequests :
        \/ SeedBegin(r)
        \/ SeedCountOrganization(r)
        \/ SeedCreateOrganization(r)
        \/ SeedCountStats(r)
        \/ SeedCreateStats(r)
        \/ SeedReturn(r)

SpecSeedRace == InitSeedRace /\ [][NextSeedRace]_vars

\* ===================================================================== claims
\* Helpers of the statements below, written independently of the handlers.

\* pub is doc as a response shows it: _id replaced by the string id, the rest equal.
IsPublicFormOf(pub, doc) ==
    /\ DOMAIN pub = (DOMAIN doc \ {"_id"}) \cup {"id"}
    /\ pub["id"] = StrOid(doc["_id"])
    /\ \A k \in DOMAIN doc \ {"_id"} : pub[k] = doc[k]

\* a >= b for strings, by the first position where they differ.
LexGeq(a, b) ==
    \/ /\ Len(b) <= Len(a)
       /\ \A i \in 1..Len(b) : a[i] = b[i]
    \/ \E i \in 1..Len(a) :
          /\ i <= Len(b)
          /\ \A j \in 1..(i - 1) : a[j] = b[j]
          /\ a[i] > b[i]

IsPrefix(s, t) == Len(s) <= Len(t) /\ SubSeq(t, 1, Len(s)) = s

DefaultOrganizationName == "HACKSTERS"

\* C1: with the store configured, a POST /seed that directly follows a completed
\* POST /seed inserts no organization and no stats document and returns an
\* empty `inserted` list, whatever the store held before the first call.
C1_SecondSeedInsertsNothing ==
    [][(/\ db # None
        /\ response.op = "seed_minimal"
        /\ response.status = 200
        /\ response'.op = "seed_minimal")
       => (/\ response'.status = 200
           /\ response'.body.inserted = <<>>
           /\ store'["organization"] = store["organization"]
           /\ store'["stats"] = store["stats"])]_vars

\* A seed answered with an empty list after an earlier seed inserted both defaults.
C1_Witness ==
    /\ response.op = "seed_minimal"
    /\ response.status = 200
    /\ response.body.inserted = <<>>
    /\ Len(store["organization"]) = 1
    /\ store["organization"][1]["name"] = DefaultOrganizationName
    /\ Len(store["stats"]) = 1
    /\ store["stats"][1]["team_size"] = 8

\* C2: GET /timeline returns every stored event exactly once, in its public
\* form, and each result's date is >= the next one's as plain strings; this
\* holds after any sequence of POST /timeline requests.
C2_TimelineSortedPermutation ==
    (response.op = "list_events" /\ db # None) =>
        LET events == store["event"]
            body == response.body
            n == Len(events)
        IN /\ response.status = 200
           /\ Len(body) = n
           /\ \E f \in [1..n -> 1..n] :
                 /\ \A i, j \in 1..n : f[i] = f[j] => i = j
                 /\ \A i \in 1..n : IsPublicFormOf(body[f[i]], events[i])
           /\ \A i \in 1..(n - 1) : LexGeq(body[i]["date"], body[i + 1]["date"])

\* A listing that reordered the store: "9" was posted after "10" and is shown first.
C2_Witness ==
    /\ response.op = "list_events"
    /\ Len(response.body) >= 2
    /\ store["event"][1]["date"] = <<1, 0>>
    /\ store["event"][2]["date"] = <<9>>
    /\ response.body[1]["date"] = <<9>>
    /\ response.body[2]["date"] = <<1, 0>>

\* C3 as claimed: after POST /timeline answered 200 with {id}, every later
\* GET /timeline shows a document whose id is that non-empty string and whose
\* fields equal the posted body's.
C3_PostedEventIsListed ==
    (response.op = "list_events") =>
        \A a \in acked :
            /\ Len(a.id) > 0
            /\ \E i \in DOMAIN response.body :
                  /\ response.body[i]["id"] = a.id
                  /\ \A k \in DOMAIN a.body :
                        /\ k \in DOMAIN response.body[i]
                        /\ response.body[i][k] = a.body[k]

\* The text of a URL after validation, stated apart from the schema's operator.
NormalisedUrl(u) == <<u[1], u[2], IF u[3] = "" THEN "/" ELSE u[3]>>

\* C3 as amended: after POST /timeline answered 200 with {id}, every later
\* GET /timeline shows a document whose id is that non-empty string, that has
\* exactly the Event fields (and id), and whose fields equal the posted body's
\* as validated: every photo URL in its normalised form, every other posted
\* Event field as posted; fields the Event schema does not declare are dropped.
C3_PostedEventIsListedAsValidated ==
    (response.op = "list_events") =>
        \A a \in acked :
            /\ Len(a.id) > 0
            /\ \E i \in DOMAIN response.body :
                  LET shown == response.body[i]
                  IN /\ shown["id"] = a.id
                     /\ DOMAIN shown = EventFields \cup {"id"}
                     /\ \A k \in (DOMAIN a.body \cap EventFields) \ {"photos"} :
                           shown[k] = a.body[k]
                     /\ "photos" \in DOMAIN a.body =>
                           /\ Len(shown["photos"]) = Len(a.body["photos"])
                           /\ \A j \in DOMAIN a.body["photos"] :
                                 shown["photos"][j] = NormalisedUrl(a.body["photos"][j])

\* A listing made after an event with a bare-host photo URL and an event with an
\* undeclared field were posted, and a team member was added since.
C3_Witness ==
    /\ response.op = "list_events"
    /\ \E a \in acked : "sponsor" \in DOMAIN a.body
    /\ \E a \in acked : "photos" \in DOMAIN a.body /\ a.body["photos"][1][3] = ""
    /\ Len(store["teammember"]) > 0

\* C4: a POST /timeline whose type is neither "win" nor "participated" is
\* answered with a validation error and changes no collection.
C4_BadTypeRejected ==
    [][\A event \in EventPayloads :
          (CreateEvent(event) /\ ("type" \notin DOMAIN event \/ event["type"] \notin EventType))
          => (/\ response'.op = "create_event"
              /\ response'.status = 422
              /\ "type" \in response'.body.detail \/ "type" \notin DOMAIN event
              /\ store' = store)]_vars

\* A rejected type, with the store configured and an event already stored.
C4_Witness ==
    /\ db # None
    /\ response.op = "create_event"
    /\ response.status = 422
    /\ response.body.detail = {"type"}
    /\ Len(store["event"]) > 0
    /\ Len(store["event"]) < MaxEvents

WriteOps == {"seed_minimal", "create_event", "create_member", "submit_contact"}

\* C5: without a store connection every write route answers with an error and
\* persists nothing, and every read route answers 200 with an empty result:
\* null for organization and stats, an empty list for timeline and team.
C5_NoConnection ==
    [][db = None =>
         /\ store' = store
         /\ response'.op \in WriteOps => response'.status \in {422, 500}
         /\ response'.op \in {"get_organization", "get_stats"}
              => (response'.status = 200 /\ response'.body = None)
         /\ response'.op \in {"list_events", "list_team"}
              => (response'.status = 200 /\ response'.body = <<>>)]_vars

\* Without a connection, a valid POST /timeline failed while the database
\* itself holds an organization document.
C5_Witness ==
    /\ db = None
    /\ response.op = "create_event"
    /\ response.status = 500
    /\ Len(store["organization"]) > 0

\* C6: with the store configured, GET /content/organization answers null exactly
\* when the organization collection is empty, and otherwise a stored
\* organization document in its public form; GET /content/stats likewise.
C6_SingleDocumentOrNull ==
    \A route \in {[op |-> "get_organization", c |-> "organization"],
                   [op |-> "get_stats", c |-> "stats"]} :
        (db # None /\ response.op = route.op) =>
            /\ response.status = 200
            /\ (response.body = None) <=> (Len(store[route.c]) = 0)
            /\ response.body # None =>
                  \E i \in DOMAIN store[route.c] : IsPublicFormOf(response.body, store[route.c][i])

\* The seeded organization document read back.
C6_Witness ==
    /\ db # None
    /\ response.op = "get_organization"
    /\ response.body # None
    /\ response.body["name"] = DefaultOrganizationName
    /\ Len(response.body["id"]) > 0

\* C7: GET /test always answers 200 with the diagnostic structure: without a
\* connection `database` is "Available but not initialized" and collections is
\* empty; with a connection either the listing succeeded (connection_status
\* "Connected", at most the first 10 names) or it threw (`database` carries
\* the error cut to 80 characters, connection_status stays "Not Connected").
C7_TestNeverFails ==
    response.op = "test_database" =>
        LET r == response.body
        IN /\ response.status = 200
           /\ r.backend = "Running"
           /\ db = None =>
                 /\ r.database = "Available but not initialized"
                 /\ r.collections = <<>>
                 /\ r.connection_status = "Not Connected"
           /\ db # None =>
                 \/ /\ r.database = "Connected & Working"
                    /\ r.connection_status = "Connected"
                    /\ Len(r.collections) <= 10
                    /\ \E n \in OtherCounts :
                          LET listing == SubSeq(OtherCollections, 1, n) \o OwnCollections
                          IN /\ IsPrefix(r.collections, listing)
                             /\ Len(r.collections) < 10 => r.collections = listing
                 \/ /\ r.database = "Connected but Error"
                    /\ Len(r.database_detail) <= 80
                    /\ r.connection_status = "Not Connected"
                    /\ r.collections = <<>>

\* A listing of more than 10 collections, answered with 10.
C7_Witness ==
    /\ response.op = "test_database"
    /\ response.body.connection_status = "Connected"
    /\ Len(response.body.collections) = 10
    /\ Len(OwnCollections) >= 2

\* C8: no request removes or changes a stored document: every collection only
\* grows at its end, and the read routes leave every collection as it was.
C8_DocumentsImmutable ==
    [][/\ \A c \in Collections : IsPrefix(store[c], store'[c])
       /\ response'.op \in ReadOps => store' = store]_vars

\* Reads and writes have both happened: a listing of a store that holds events,
\* a team member and the seeded organization.
C8_Witness ==
    /\ response.op = "list_events"
    /\ Len(store["event"]) >= 2
    /\ Len(store["teammember"]) >= 1
    /\ Len(store["organization"]) >= 1

\* C9 as claimed: from an empty store, the organization and the stats collection
\* hold at most one document each in every reachable state, also when POST /seed
\* requests interleave their count check and their insert.
C9_AtMostOneEach ==
    /\ Len(store["organization"]) <= 1
    /\ Len(store["stats"]) <= 1

\* C9 as amended: from an empty store, each of the two collections holds at most
\* one document as long as no POST /seed began while another was in flight, and
\* never more documents than POST /seed requests have begun.
C9_AtMostOneEachWhenSerial ==
    LET begun == Cardinality({r \in SeedRequests : pc[r] # "idle"})
    IN /\ ~overlapped => (Len(store["organization"]) <= 1 /\ Len(store["stats"]) <= 1)
       /\ Len(store["organization"]) <= begun
       /\ Len(store["stats"]) <= begun

\* Two requests ran one after the other and left one document in each collection.
C9_Witness ==
    /\ ~overlapped
    /\ Cardinality({r \in SeedRequests : pc[r] = "done"}) >= 2
    /\ Len(store["organization"]) = 1
    /\ Len(store["stats"]) = 1

\* d is the default document `defaults` as stored: its fields plus an _id.
IsStoredDefault(d, defaults) ==
    /\ DOMAIN d = DOMAIN defaults \cup {"_id"}
    /\ \A k \in DOMAIN defaults : d[k] = defaults[k]

\* C10: with the store configured, one POST /seed inserts exactly one default
\* organization document iff the organization collection was empty and exactly
\* one default stats document iff the stats collection was empty; `inserted`
\* lists the identifiers of the documents it inserted, organization first; the
\* event, teammember and contactsubmission collections are unchanged.
C10_SeedDecidesIndependently ==
    [][(db # None /\ response'.op = "seed_minimal") =>
         LET orgEmpty == Len(store["organization"]) = 0
             statsEmpty == Len(store["stats"]) = 0
             org == store'["organization"]
             stats == store'["stats"]
         IN /\ response'.status = 200
            /\ IF orgEmpty
               THEN Len(org) = 1 /\ IsStoredDefault(org[1], DefaultOrganization)
               ELSE org = store["organization"]
            /\ IF statsEmpty
               THEN Len(stats) = 1 /\ IsStoredDefault(stats[1], DefaultStats)
               ELSE stats = store["stats"]
            /\ response'.body.inserted =
                  (IF orgEmpty THEN <<StrOid(org[1]["_id"])>> ELSE <<>>)
                    \o (IF statsEmpty THEN <<StrOid(stats[1]["_id"])>> ELSE <<>>)
            /\ \A c \in {"event", "teammember", "contactsubmission"} : store'[c] = store[c]]_vars

\* A seed that kept the organization it found and inserted only the stats.
C10_Witness ==
    /\ response.op = "seed_minimal"
    /\ response.status = 200
    /\ Len(response.body.inserted) = 1
    /\ store["organization"] = <<LegacyOrganization>>
    /\ Len(store["stats"]) = 1
    /\ response.body.inserted[1] = StrOid(store["stats"][1]["_id"])

====
